---- MODULE Spec2Model ----
(***************************************************************************)
(* A model of the Patronus MCP server (src/src/patronus_mcp/server.py):    *)
(* the six tool functions, the evaluator-config resolver, the field        *)
(* projection and the custom-evaluator bridge.  The Patronus SDK and the   *)
(* user-supplied scoring function are the environment: every call into     *)
(* them either returns a value or raises, chosen nondeterministically.     *)
(***************************************************************************)
EXTENDS Integers, Sequences, FiniteSets, TLC

VARIABLES
    tool,            \* the tool function in flight, "idle" when none is
    pc,              \* its position: "idle", an await point of batch_evaluate, "done"
    request,         \* request.data of the call in flight
    patronus_client, \* the client handle the tool was called with
    evaluators,      \* batch_evaluate: the resolved evaluators (local)
    eval_kwargs,     \* evaluate / batch_evaluate: the projected keyword arguments (local)
    results,         \* batch_evaluate: the container client.evaluate returned (local)
    results_dict,    \* batch_evaluate: the serialised results (local)
    pending,         \* batch_evaluate: the exception in flight inside the async with block
    ctx,             \* the scoped AsyncPatronus context: "none", "entered", "exited"
    calls,           \* the calls made into the SDK / the user function, in order
    raised,          \* the exception that left the try block, NoExc if none did
    response,        \* what the call gave the transport: an envelope or an escaped exception
    app,             \* what app_factory built: the client handle and the registered tools
    suspended        \* the frames of the batch_evaluate calls suspended at an await

vars == <<tool, pc, request, patronus_client, evaluators, eval_kwargs, results,
          results_dict, pending, ctx, calls, raised, response, app, suspended>>

----------------------------------------------------------------------------
(* Bounds of the model *)

MaxEvaluators == 2   \* longest evaluators list of a batch request
MaxOutcomes == 2     \* longest sequence an SDK result accessor yields
MaxTenths == 12      \* floats returned by a user function: -1.2 .. 1.2 in tenths
MaxInt == 2          \* small ints returned by a user function: -2 .. 2
MaxListed == 2       \* longest list of evaluators / of criteria the API returns

----------------------------------------------------------------------------
(* Python values.  Every type keeps its payload under its own field name.  *)

None == [type |-> "NoneType"]
PyStr(s) == [type |-> "str", s |-> s]
PyBool(b) == [type |-> "bool", b |-> b]
\* an int: n is its value; huge marks an int beyond the range of a float
\* (abs(n) >= 2**1024), of which only the sign n \in {-1, 1} is kept
PyInt(n) == [type |-> "int", n |-> n, huge |-> FALSE]
HugeInt(sign) == [type |-> "int", n |-> sign, huge |-> TRUE]
\* a finite float, kept exactly in tenths: PyFloat(7) is 0.7
PyFloat(t) == [type |-> "float", tenths |-> t]
PyList(items) == [type |-> "list", items |-> items]
PyDict(keys) == [type |-> "dict", keys |-> keys]

\* isinstance(v, cls) for the builtin classes the server tests: bool is a
\* subclass of int
IsInstance(v, cls) ==
    \/ v.type = cls
    \/ v.type = "bool" /\ cls = "int"

----------------------------------------------------------------------------
(* Exceptions.  "Exception" is an instance of Exception whose str() works; *)
(* "ExceptionStrRaises" is an instance of Exception whose __str__ raises;  *)
(* "BaseException" is not an instance of Exception (SystemExit,            *)
(* KeyboardInterrupt, asyncio.CancelledError, GeneratorExit).              *)

ExcKinds == {"Exception", "ExceptionStrRaises", "BaseException"}
Exc(kind, msg) == [kind |-> kind, msg |-> msg]
NoExc == [kind |-> "none", msg |-> ""]

\* the outcome of one call into the environment
Ret(v) == [raised |-> FALSE, value |-> v, exc |-> NoExc]
Raise(e) == [raised |-> TRUE, value |-> None, exc |-> e]
Raises(msg) == {Raise(Exc(k, msg)) : k \in ExcKinds}

\* what a tool call hands to the transport
Returned(envelope) == [returned |-> TRUE, envelope |-> envelope]
Escaped(kind) == [returned |-> FALSE, escaped |-> kind]
NoResponse == [returned |-> FALSE, escaped |-> "none"]

\* {"status": "error", "message": str(e)}
ErrorEnvelopePartial(message) ==
    [status |-> "error", message |-> message, results |-> <<>>]

ErrorEnvelope(message) == [status |-> "error", message |-> message]

\* except Exception as e: return {"status": "error", "message": str(e)}
\* An exception that is no instance of Exception is not caught; str(e)
\* raising inside the handler leaves the handler with that new exception.
ExceptHandlerMissing(e) ==
    Escaped(IF e.kind = "BaseException" THEN "BaseException" ELSE "Exception")

ExceptHandler(e) ==
    IF e.kind = "Exception" THEN Returned(ErrorEnvelope(e.msg))
    ELSE IF e.kind = "ExceptionStrRaises" THEN Escaped("Exception")
    ELSE Escaped("BaseException")

----------------------------------------------------------------------------
(* Request schemas *)

OptionalFields ==
    {"criteria", "explain_strategy", "criteria_config", "allow_update", "max_attempts"}

\* RemoteEvaluatorConfig with every optional field declared `= None`
EvaluatorConfigNoDefaults(name, given) ==
    [name |-> name,
     criteria |-> IF "criteria" \in DOMAIN given THEN given.criteria ELSE None,
     explain_strategy |-> IF "explain_strategy" \in DOMAIN given
                          THEN given.explain_strategy ELSE None,
     criteria_config |-> IF "criteria_config" \in DOMAIN given
                         THEN given.criteria_config ELSE None,
     allow_update |-> IF "allow_update" \in DOMAIN given
                      THEN given.allow_update ELSE None,
     max_attempts |-> IF "max_attempts" \in DOMAIN given
                      THEN given.max_attempts ELSE None]

\* RemoteEvaluatorConfig / AsyncRemoteEvaluatorConfig after validation: the
\* declared defaults fill the fields the caller left out
EvaluatorConfig(name, given) ==
    [name |-> name,
     criteria |-> IF "criteria" \in DOMAIN given THEN given.criteria ELSE None,
     explain_strategy |-> IF "explain_strategy" \in DOMAIN given
                          THEN given.explain_strategy ELSE PyStr("always"),
     criteria_config |-> IF "criteria_config" \in DOMAIN given
                         THEN given.criteria_config ELSE None,
     allow_update |-> IF "allow_update" \in DOMAIN given
                      THEN given.allow_update ELSE PyBool(FALSE),
     max_attempts |-> IF "max_attempts" \in DOMAIN given
                      THEN given.max_attempts ELSE PyInt(3)]

\* the evaluator specs requests are built from: the tests' fixtures, a spec
\* with every optional field given, and one with every optional field null
EvaluatorConfigs ==
    {EvaluatorConfig("lynx", [criteria |-> PyStr("patronus:hallucination"),
                              explain_strategy |-> PyStr("always")]),
     EvaluatorConfig("judge", [criteria |-> PyStr("patronus:is-concise"),
                               explain_strategy |-> PyStr("never"),
                               criteria_config |-> PyDict({"k"}),
                               allow_update |-> PyBool(TRUE),
                               max_attempts |-> PyInt(1)]),
     EvaluatorConfig("invalid_evaluator", [criteria |-> None,
                                           explain_strategy |-> None,
                                           criteria_config |-> None,
                                           allow_update |-> None,
                                           max_attempts |-> None])}

StrValues == {None, PyStr(""), PyStr("text")}
ContextValues == {None, PyStr(""), PyStr("text"), PyList(<<>>), PyList(<<"text">>)}
AttachmentValues == {None, PyList(<<>>), PyList(<<"att">>)}
MetadataValues == {None, PyDict({}), PyDict({"k"})}

\* the seven TaskDescription fields of EvaluationRequest and
\* BatchEvaluationRequest, every combination of null / empty / non-empty
AllTaskDescriptions ==
    [task_input : StrValues, task_output : StrValues, system_prompt : StrValues,
     task_context : ContextValues, task_attachments : AttachmentValues,
     gold_answer : StrValues, task_metadata : MetadataValues]

NullTask ==
    [task_input |-> None, task_output |-> None, system_prompt |-> None,
     task_context |-> None, task_attachments |-> None, gold_answer |-> None,
     task_metadata |-> None]

\* the task descriptions of the full behaviours: nothing supplied, the
\* tests' fixture, everything supplied but empty, everything supplied
TaskDescriptions ==
    {NullTask,
     [NullTask EXCEPT !.task_input = PyStr("text"), !.task_output = PyStr("text"),
                      !.task_context = PyList(<<"text">>)],
     [task_input |-> PyStr(""), task_output |-> PyStr(""), system_prompt |-> PyStr(""),
      task_context |-> PyList(<<>>), task_attachments |-> PyList(<<>>),
      gold_answer |-> PyStr(""), task_metadata |-> PyDict({})],
     [task_input |-> PyStr("text"), task_output |-> PyStr("text"),
      system_prompt |-> PyStr("text"), task_context |-> PyStr("text"),
      task_attachments |-> PyList(<<"att">>), gold_answer |-> PyStr("text"),
      task_metadata |-> PyDict({"k"})]}

WithField(rec, name, value) ==
    [f \in DOMAIN rec \cup {name} |-> IF f = name THEN value ELSE rec[f]]

EvaluationRequests(tasks, configs) ==
    {WithField(t, "evaluator", c) : t \in tasks, c \in configs}

\* the evaluator spec of the tests' evaluation_request fixture
FixtureConfig ==
    EvaluatorConfig("lynx", [criteria |-> PyStr("patronus:hallucination"),
                             explain_strategy |-> PyStr("always")])

\* a field the caller left out of the evaluator spec
Absent == [type |-> "absent"]

\* what the schema accepts for each optional field (explicit null included;
\* 0, false and {} are the falsy non-null values)
FieldValues ==
    [criteria |-> {None, PyStr("patronus:hallucination")},
     explain_strategy |-> {None, PyStr("never"), PyStr("on-fail"), PyStr("always")},
     criteria_config |-> {None, PyDict({}), PyDict({"k"})},
     allow_update |-> {None, PyBool(FALSE), PyBool(TRUE)},
     max_attempts |-> {None, PyInt(0), PyInt(1), PyInt(3)}]

\* the optional fields as a caller writes them: each given or left out
Givens ==
    {[f \in {o \in OptionalFields : c[o] # Absent} |-> c[f]] :
        c \in [criteria : FieldValues.criteria \cup {Absent},
               explain_strategy : FieldValues.explain_strategy \cup {Absent},
               criteria_config : FieldValues.criteria_config \cup {Absent},
               allow_update : FieldValues.allow_update \cup {Absent},
               max_attempts : FieldValues.max_attempts \cup {Absent}]}

\* RemoteEvaluatorConfig(name="defaults"): every optional field left out
DefaultConfig == EvaluatorConfig("defaults", <<>>)

\* every evaluator spec the schema accepts, over FieldValues
AllEvaluatorConfigs ==
    {EvaluatorConfig("lynx", given) : given \in Givens} \cup {DefaultConfig}

----------------------------------------------------------------------------
(* Evaluator Config Resolver *)

\* _create_evaluator / _create_async_evaluator: one kwargs entry per
\* optional field whose value is not None
ResolverKwargsTruthy(config) ==
    [k \in {o \in OptionalFields :
               config[o] \notin {None, PyBool(FALSE), PyInt(0), PyDict({}), PyStr("")}}
       |-> config[k]]

ResolverKwargs(config) ==
    [k \in {o \in OptionalFields : config[o] # None} |-> config[k]]

_create_evaluator(config) ==
    [cls |-> "RemoteEvaluator", name |-> config.name, kwargs |-> ResolverKwargs(config)]

_create_async_evaluator(config) ==
    [cls |-> "AsyncRemoteEvaluator", name |-> config.name,
     kwargs |-> ResolverKwargs(config)]

----------------------------------------------------------------------------
(* Field Projection Layer *)

fields ==
    {"task_input", "task_output", "system_prompt", "task_context",
     "task_attachments", "gold_answer", "task_metadata"}

\* eval_kwargs.update({field: getattr(request.data, field) for field in fields
\*                     if getattr(request.data, field) is not None})
ProjectTruthy(data) ==
    [f \in {g \in fields : data[g] \notin {None, PyStr(""), PyList(<<>>), PyDict({})}}
       |-> data[f]]

Project(data) ==
    [f \in {g \in fields : data[g] # None} |-> data[f]]

----------------------------------------------------------------------------
(* The SDK as the server sees it *)

SeqsUpTo(S, n) == UNION {[1..k -> S] : k \in 0..n}

\* an EvaluationResult object handed out by the SDK: opaque to the server,
\* which only serialises it
EvaluationResults == [type : {"EvaluationResult"}, id : {1, 2}]

\* eval.model_dump(mode="json"): the object as a JSON-ready dict
model_dump(obj) == [type |-> "dict", dumped |-> obj.id]

\* the EvaluationContainer client.evaluate returns, as the server sees it:
\* what its three accessors give.  The server's code relates them in no way.
EvaluationContainers ==
    [type : {"EvaluationContainer"},
     all_succeeded : BOOLEAN,
     failed_evaluations : SeqsUpTo(EvaluationResults, MaxOutcomes),
     succeeded_evaluations : SeqsUpTo(EvaluationResults, MaxOutcomes)]

\* the calls the server makes, as logged in calls
CtorCall(evaluator) ==
    [op |-> evaluator.cls, name |-> evaluator.name, kwargs |-> evaluator.kwargs]
EvaluateCall(evs, kwargs) == [op |-> "evaluate", evaluators |-> evs, kwargs |-> kwargs]
SdkCall(op) == [op |-> op]
NoKwargs == [f \in {} |-> None]

----------------------------------------------------------------------------
(* State *)

Client == [type |-> "PatronusAPIClient"]

\* app_factory: patronus.init(...), the one PatronusAPIClient, and the tools
\* registered on the FastMCP application
app_factoryWithInitialize ==
    [startup |-> <<SdkCall("patronus.init"), SdkCall("PatronusAPIClient")>>,
     patronus_client |-> Client,
     tools |-> {"initialize", "evaluate", "run_experiment", "batch_evaluate",
                "async_batch_evaluate", "list_evaluator_info", "create_criteria",
                "custom_evaluate"}]

app_factory ==
    [startup |-> <<SdkCall("patronus.init"), SdkCall("PatronusAPIClient")>>,
     patronus_client |-> Client,
     tools |-> {"evaluate", "run_experiment", "batch_evaluate", "list_evaluator_info",
                "create_criteria", "custom_evaluate"}]

Init ==
    /\ tool = "idle"
    /\ pc = "idle"
    /\ request = None
    /\ patronus_client = Client
    /\ evaluators = <<>>
    /\ eval_kwargs = NoKwargs
    /\ results = None
    /\ results_dict = None
    /\ pending = NoExc
    /\ ctx = "none"
    /\ calls = <<>>
    /\ raised = NoExc
    /\ response = NoResponse
    /\ app = app_factory
    /\ suspended = <<>>

\* try: <body> except Exception as e: return {"status": "error", ...}
\* outcome is what the body did: returned an envelope or raised
TryExcept(outcome) ==
    IF outcome.raised THEN ExceptHandler(outcome.exc) ELSE Returned(outcome.value)

\* a tool function ends: the transport has its envelope or its exception
Finish(t, req, log, outcome) ==
    /\ tool' = t
    /\ pc' = "done"
    /\ request' = req
    /\ calls' = log
    /\ raised' = outcome.exc
    /\ response' = TryExcept(outcome)
    /\ pending' = NoExc

----------------------------------------------------------------------------
(* evaluate *)

\* ctor: the outcome of patronus.RemoteEvaluator(...); run: the outcome of
\* evaluator.evaluate(**eval_kwargs)
evaluate(req, ctor, run) ==
    LET evaluator == _create_evaluator(req.evaluator)
        kwargs == Project(req)
        ctorCall == CtorCall(evaluator)
        runCall == EvaluateCall(<<evaluator>>, kwargs)
    IN  /\ tool = "idle"
        /\ UNCHANGED <<app, suspended>>
        /\ UNCHANGED <<patronus_client, evaluators, results, results_dict, ctx>>
        /\ IF ctor.raised
           THEN /\ eval_kwargs' = NoKwargs
                /\ Finish("evaluate", req, <<ctorCall>>, Raise(ctor.exc))
           ELSE /\ eval_kwargs' = kwargs
                /\ Finish("evaluate", req, <<ctorCall, runCall>>,
                          IF run.raised THEN Raise(run.exc)
                          ELSE Ret([status |-> "success", result |-> run.value]))

EvaluateTool ==
    /\ tool = "idle"
    /\ \E req \in EvaluationRequests(TaskDescriptions, EvaluatorConfigs),
           ctor \in {Ret(None)} \cup Raises("RemoteEvaluator failed"),
           run \in {Ret(r) : r \in EvaluationResults} \cup Raises("evaluate failed") :
            evaluate(req, ctor, run)

----------------------------------------------------------------------------
(* batch_evaluate: one action per stretch of code between two awaits *)

BatchRequests(tasks, lists) ==
    {WithField(t, "evaluators", evs) : t \in tasks, evs \in lists}

\* [_create_async_evaluator(config) for config in request.data.evaluators]
ResolveAllReversed(configs) ==
    [i \in 1..Len(configs) |-> _create_async_evaluator(configs[Len(configs) + 1 - i])]

ResolveAll(configs) == [i \in 1..Len(configs) |-> _create_async_evaluator(configs[i])]

CtorCalls(evs, n) == [i \in 1..n |-> CtorCall(evs[i])]

\* if not request.data.evaluators
NoEvaluatorsUnchecked(configs) == FALSE

NoEvaluators(configs) == Len(configs) = 0

\* From the call to the first await (lines 182-208).  failed is the index of
\* the evaluator whose constructor raises (0: none does), ctor the exception
\* it raises, client the outcome of patronus.AsyncPatronus().
BatchStart(req, failed, ctor, client) ==
    LET evs == ResolveAll(req.evaluators)
        n == Len(req.evaluators)
    IN  /\ tool = "idle"
        /\ UNCHANGED <<app, suspended>>
        /\ failed \in 0..n
        /\ UNCHANGED <<patronus_client, results, results_dict, ctx>>
        /\ IF NoEvaluators(req.evaluators)
           THEN /\ evaluators' = <<>>
                /\ eval_kwargs' = NoKwargs
                /\ Finish("batch_evaluate", req, <<>>,
                          Ret(ErrorEnvelope("No evaluators provided")))
           ELSE IF failed > 0
           THEN /\ evaluators' = <<>>
                /\ eval_kwargs' = NoKwargs
                /\ Finish("batch_evaluate", req, CtorCalls(evs, failed),
                          Raise(ctor))
           ELSE IF client.raised
           THEN /\ evaluators' = evs
                /\ eval_kwargs' = Project(req)
                /\ Finish("batch_evaluate", req,
                          Append(CtorCalls(evs, n), SdkCall("AsyncPatronus")),
                          Raise(client.exc))
           ELSE /\ evaluators' = evs
                /\ eval_kwargs' = Project(req)
                /\ tool' = "batch_evaluate"
                /\ pc' = "aenter"
                /\ request' = req
                /\ calls' = Append(CtorCalls(evs, n), SdkCall("AsyncPatronus"))
                /\ UNCHANGED <<pending, raised, response>>

\* async with ... as client: __aenter__ completes, and the body runs up to
\* await client.evaluate(evaluators=evaluators, **eval_kwargs) (lines 208-212)
BatchEnter(enter) ==
    /\ tool = "batch_evaluate"
    /\ UNCHANGED <<app, suspended>>
    /\ pc = "aenter"
    /\ UNCHANGED <<patronus_client, evaluators, eval_kwargs, results, results_dict>>
    /\ IF enter.raised
       THEN /\ ctx' = ctx
            /\ Finish(tool, request, Append(calls, SdkCall("__aenter__")),
                      Raise(enter.exc))
       ELSE /\ ctx' = "entered"
            /\ pc' = "evaluate"
            /\ calls' = calls \o <<SdkCall("__aenter__"),
                                    EvaluateCall(evaluators, eval_kwargs)>>
            /\ UNCHANGED <<tool, request, pending, raised, response>>

\* the places where reading the container can raise (lines 215-225)
ReadPoints ==
    {"all_succeeded", "failed_evaluations", "failed.model_dump",
     "succeeded_evaluations", "succeeded.model_dump"}

\* a model_dump can only raise if there is an object to dump
CanRaiseAt(container, point) ==
    /\ point = "failed.model_dump" => container.failed_evaluations # <<>>
    /\ point = "succeeded.model_dump" => container.succeeded_evaluations # <<>>

DumpAll(objs) == [i \in 1..Len(objs) |-> model_dump(objs[i])]

\* results_dict = {"all_succeeded": ..., "failed_evaluations": [...],
\*                 "succeeded_evaluations": [...]}
ResultsDict(container) ==
    [all_succeeded |-> container.all_succeeded,
     failed_evaluations |-> DumpAll(container.failed_evaluations),
     succeeded_evaluations |-> DumpAll(container.succeeded_evaluations)]

\* The body of the async with block once client.evaluate completes (lines
\* 209-227): results is bound if evaluate returned, results_dict if every
\* read and dump succeeded; pending is the exception that leaves the block.
\* read is the place where reading raises ("none": nowhere).
BlockBodyDegrades(run, read, readExc) ==
    IF run.raised
    THEN [results |-> None, pending |-> NoExc,
          results_dict |-> [all_succeeded |-> FALSE,
                            failed_evaluations |-> <<[type |-> "dict", dumped |-> 0]>>,
                            succeeded_evaluations |-> <<>>]]
    ELSE IF read # "none"
    THEN [results |-> run.value, pending |-> readExc, results_dict |-> None]
    ELSE [results |-> run.value, pending |-> NoExc,
          results_dict |-> ResultsDict(run.value)]

BlockBody(run, read, readExc) ==
    IF run.raised
    THEN [results |-> None, pending |-> run.exc, results_dict |-> None]
    ELSE IF read # "none"
    THEN [results |-> run.value, pending |-> readExc, results_dict |-> None]
    ELSE [results |-> run.value, pending |-> NoExc,
          results_dict |-> ResultsDict(run.value)]

\* the block written without `async with`: client.__aexit__ awaited only
\* after the last statement of the body
BatchEvaluatedLeaks(run, read, readExc) ==
    LET body == BlockBody(run, read, readExc)
    IN  /\ tool = "batch_evaluate"
        /\ UNCHANGED <<app, suspended>>
        /\ pc = "evaluate"
        /\ ~run.raised /\ read # "none" => CanRaiseAt(run.value, read)
        /\ results' = body.results
        /\ results_dict' = body.results_dict
        /\ UNCHANGED <<patronus_client, evaluators, eval_kwargs, ctx>>
        /\ IF body.pending # NoExc
           THEN Finish(tool, request, calls, Raise(body.pending))
           ELSE /\ pc' = "aexit"
                /\ pending' = body.pending
                /\ UNCHANGED <<tool, request, calls, raised, response>>

\* client.evaluate completes and the body runs on to the end of the block.
\* Leaving the block, by return or by exception, awaits __aexit__.
BatchEvaluated(run, read, readExc) ==
    LET body == BlockBody(run, read, readExc)
    IN  /\ tool = "batch_evaluate"
        /\ UNCHANGED <<app, suspended>>
        /\ pc = "evaluate"
        /\ ~run.raised /\ read # "none" => CanRaiseAt(run.value, read)
        /\ pc' = "aexit"
        /\ results' = body.results
        /\ pending' = body.pending
        /\ results_dict' = body.results_dict
        /\ UNCHANGED <<tool, request, patronus_client, evaluators, eval_kwargs, ctx,
                       calls, raised, response>>

\* __aexit__ completes: the return value or the exception in flight leaves
\* the block, or the exception __aexit__ raised does (lines 208, 227-230).
\* __aexit__ is taken not to swallow the exception in flight (it returns a
\* false value), as a client context that only closes its connection does.
BatchExit(exit) ==
    /\ tool = "batch_evaluate"
    /\ UNCHANGED <<app, suspended>>
    /\ pc = "aexit"
    /\ UNCHANGED <<patronus_client, evaluators, eval_kwargs, results, results_dict>>
    /\ ctx' = IF exit.raised THEN "exit_raised" ELSE "exited"
    /\ Finish(tool, request, Append(calls, SdkCall("__aexit__")),
              IF exit.raised THEN Raise(exit.exc)
              ELSE IF pending # NoExc THEN Raise(pending)
              ELSE Ret([status |-> "success", results |-> results_dict]))

BatchStartTool ==
    /\ tool = "idle"
    /\ \E req \in BatchRequests(TaskDescriptions,
                                  SeqsUpTo(EvaluatorConfigs, MaxEvaluators)),
           failed \in 0..MaxEvaluators,
           ctor \in {Exc(k, "AsyncRemoteEvaluator failed") : k \in ExcKinds},
           client \in {Ret(None)} \cup Raises("AsyncPatronus failed") :
            BatchStart(req, failed, ctor, client)

BatchEnterStep ==
    /\ pc = "aenter"
    /\ \E enter \in {Ret(None)} \cup Raises("__aenter__ failed") : BatchEnter(enter)

BatchEvaluatedStep ==
    /\ pc = "evaluate"
    /\ \E run \in {Ret(c) : c \in EvaluationContainers} \cup Raises("evaluate failed"),
           read \in ReadPoints \cup {"none"}, k \in ExcKinds :
            BatchEvaluated(run, read, Exc(k, "reading results failed"))

BatchExitStep ==
    /\ pc = "aexit"
    /\ \E exit \in {Ret(None)} \cup Raises("__aexit__ failed") : BatchExit(exit)

----------------------------------------------------------------------------
(* custom_evaluate: the Custom-Evaluator Bridge *)

PassThreshold == 7   \* result >= 0.7, in tenths

\* the structured results a user function returns (patronus.EvaluationResult)
StructuredResults ==
    [type : {"EvaluationResult"},
     score : {None, PyFloat(8), PyFloat(2)},
     pass_ : {None, PyBool(TRUE), PyBool(FALSE)},
     text_output : {None, PyStr("Good match")},
     explanation : {PyStr("Output matches context well")},
     metadata : {PyDict({"context_length"})},
     tags : {PyDict({"quality"})}]

Numbers ==
    {PyInt(n) : n \in -MaxInt..MaxInt} \cup {HugeInt(1), HugeInt(-1)}
    \cup {PyFloat(t) : t \in -MaxTenths..MaxTenths}

\* what a user function can return
ReturnValues ==
    StructuredResults \cup {PyBool(TRUE), PyBool(FALSE)} \cup Numbers
    \cup {PyStr(""), PyStr("hello")} \cup {None, PyList(<<>>), PyDict({})}

\* float(result) for an int or a float: OverflowError for an int no float holds
ToFloat(v) ==
    IF v.type = "float" THEN Ret(v)
    ELSE IF v.huge THEN Raise(Exc("Exception", "int too large to convert to float"))
    ELSE Ret(PyFloat(v.n * 10))

\* result >= 0.7 for an int or a float (Python compares them exactly)
AtLeastThresholdStrict(v) ==
    IF v.type = "float" THEN v.tenths > PassThreshold
    ELSE IF v.huge THEN v.n > 0
    ELSE v.n * 10 > PassThreshold

AtLeastThreshold(v) ==
    IF v.type = "float" THEN v.tenths >= PassThreshold
    ELSE IF v.huge THEN v.n > 0
    ELSE v.n * 10 >= PassThreshold

\* f"Score: {result}"
ScoreText(v) == [type |-> "str", s |-> "Score: ", formatted |-> v]

Outcome(score, pass_, text_output, explanation, metadata, tags) ==
    [status |-> "success",
     result |-> [score |-> score, pass_ |-> pass_, text_output |-> text_output,
                 explanation |-> explanation, metadata |-> metadata, tags |-> tags]]

FromStructured(r) ==
    Ret(Outcome(r.score, r.pass_, r.text_output, r.explanation, r.metadata, r.tags))

FromBool(r) ==
    Ret(Outcome(IF r.b THEN PyFloat(10) ELSE PyFloat(0), r,
                IF r.b THEN PyStr("Pass") ELSE PyStr("Fail"),
                PyStr("Boolean evaluation result"), PyDict({}), PyDict({})))

\* the dict display evaluates float(result) first: if it raises, no dict is built
FromNumber(r) ==
    LET score == ToFloat(IF r.type = "bool" THEN PyInt(IF r.b THEN 1 ELSE 0) ELSE r)
    IN  IF score.raised THEN score
        ELSE Ret(Outcome(score.value,
                         PyBool(AtLeastThreshold(
                             IF r.type = "bool" THEN PyInt(IF r.b THEN 1 ELSE 0) ELSE r)),
                         ScoreText(r), PyStr("Numeric evaluation result"),
                         PyDict({}), PyDict({})))

FromStr(r) ==
    Ret(Outcome(PyFloat(10), PyBool(TRUE), r, PyStr("Text evaluation result"),
                PyDict({}), PyDict({})))

Unsupported(r) ==
    Ret(ErrorEnvelope("Unsupported result type: <class '" \o r.type \o "'>"))

\* the isinstance chain of lines 334-383, in its order
ClassifyNumberFirst(result) ==
    IF IsInstance(result, "EvaluationResult") THEN FromStructured(result)
    ELSE IF IsInstance(result, "int") \/ IsInstance(result, "float")
    THEN FromNumber(result)
    ELSE IF IsInstance(result, "bool") THEN FromBool(result)
    ELSE IF IsInstance(result, "str") THEN FromStr(result)
    ELSE Unsupported(result)

Classify(result) ==
    IF IsInstance(result, "EvaluationResult") THEN FromStructured(result)
    ELSE IF IsInstance(result, "bool") THEN FromBool(result)
    ELSE IF IsInstance(result, "int") \/ IsInstance(result, "float")
    THEN FromNumber(result)
    ELSE IF IsInstance(result, "str") THEN FromStr(result)
    ELSE Unsupported(result)

Function == [type |-> "function"]

\* request.data of custom_evaluate: a dict that may lack either key; the
\* function entry may be no callable, the args entry no iterable
CustomRequests ==
    {[k \in keys |-> IF k = "evaluator_function" THEN f ELSE a] :
        keys \in SUBSET {"evaluator_function", "args"},
        f \in {Function, PyStr("invalid_function")},
        a \in {PyList(<<>>), PyList(<<"text">>), PyInt(5)}}

\* evaluator_func = request.data["evaluator_function"]
\* args = request.data.get("args", [])
\* result = evaluator_func(*args)
\* called is the outcome of the user function, should it be called
InvokeLenient(data, called) ==
    IF "evaluator_function" \notin DOMAIN data
    THEN Ret(None)
    ELSE IF "args" \in DOMAIN data /\ data.args.type # "list"
    THEN Raise(Exc("Exception", "argument after * must be an iterable"))
    ELSE IF data.evaluator_function.type # "function"
    THEN Ret(data.evaluator_function)
    ELSE called

Invoke(data, called) ==
    IF "evaluator_function" \notin DOMAIN data
    THEN Raise(Exc("Exception", "'evaluator_function'"))
    ELSE IF "args" \in DOMAIN data /\ data.args.type # "list"
    THEN Raise(Exc("Exception", "argument after * must be an iterable"))
    ELSE IF data.evaluator_function.type # "function"
    THEN Raise(Exc("Exception", "object is not callable"))
    ELSE called

\* whether evaluator_func(*args) reaches the user function
CallsFunction(data) ==
    /\ "evaluator_function" \in DOMAIN data
    /\ "args" \in DOMAIN data => data.args.type = "list"
    /\ data.evaluator_function.type = "function"

custom_evaluate(data, called) ==
    LET result == Invoke(data, called)
        classified == IF result.raised THEN result ELSE Classify(result.value)
    IN  /\ tool = "idle"
        /\ UNCHANGED <<app, suspended>>
        /\ UNCHANGED <<patronus_client, evaluators, eval_kwargs, results, results_dict, ctx>>
        /\ Finish("custom_evaluate", data,
                  IF CallsFunction(data)
                  THEN <<[op |-> "evaluator_func", outcome |-> called]>> ELSE <<>>,
                  IF classified.raised THEN Raise(classified.exc)
                  ELSE Ret(classified.value))

CustomEvaluateTool ==
    /\ tool = "idle"
    /\ \E data \in CustomRequests,
           called \in {Ret(v) : v \in ReturnValues} \cup Raises("evaluator function failed") :
            custom_evaluate(data, called)

----------------------------------------------------------------------------
(* run_experiment *)

experiment_fields ==
    {"project_name", "experiment_name", "dataset", "tags", "max_concurrency", "api_key"}

ExperimentRequests ==
    [project_name : {PyStr("MyTest")}, experiment_name : {PyStr("TestExperiment")},
     dataset : {PyList(<<>>), PyList(<<"row">>)},
     evaluators : SeqsUpTo(EvaluatorConfigs, MaxEvaluators),
     tags : {None, PyDict({"k"})}, max_concurrency : {PyInt(10)},
     api_key : {None, PyStr("key")}]

\* {field: getattr(request.data, field) for field in fields
\*  if getattr(request.data, field) is not None}
ExperimentKwargs(data) ==
    [f \in {g \in experiment_fields : data[g] # None} |-> data[f]]

ResolveAllSync(configs) == [i \in 1..Len(configs) |-> _create_evaluator(configs[i])]

\* what the experiment runner returns: an object with or without to_dict
ExperimentResults == [type : {"Experiment"}, has_to_dict : BOOLEAN]

\* result.to_dict() if hasattr(result, 'to_dict') else str(result)
ResultDict(result) ==
    IF result.has_to_dict THEN [type |-> "dict", of |-> "Experiment"]
    ELSE [type |-> "str", of |-> "Experiment"]

\* failed, ctor: as in BatchStart; run: the outcome of the experiment runner;
\* conv: the outcome of to_dict() / str()
run_experiment(req, failed, ctor, run, conv) ==
    LET evs == ResolveAllSync(req.evaluators)
        n == Len(req.evaluators)
        runCall == [op |-> "run_experiment", evaluators |-> evs,
                    kwargs |-> ExperimentKwargs(req)]
    IN  /\ tool = "idle"
        /\ UNCHANGED <<app, suspended>>
        /\ failed \in 0..n
        /\ UNCHANGED <<patronus_client, evaluators, eval_kwargs, results, results_dict, ctx>>
        /\ IF failed > 0
           THEN Finish("run_experiment", req, CtorCalls(evs, failed), Raise(ctor))
           ELSE Finish("run_experiment", req, Append(CtorCalls(evs, n), runCall),
                       IF run.raised THEN Raise(run.exc)
                       ELSE IF conv.raised THEN Raise(conv.exc)
                       ELSE Ret([status |-> "success",
                                      results |-> ResultDict(run.value)]))

RunExperimentTool ==
    /\ tool = "idle"
    /\ \E req \in ExperimentRequests, failed \in 0..MaxEvaluators,
           ctor \in {Exc(k, "RemoteEvaluator failed") : k \in ExcKinds},
           run \in {Ret(r) : r \in ExperimentResults} \cup Raises("run_experiment failed"),
           conv \in {Ret(None)} \cup Raises("conversion failed") :
            run_experiment(req, failed, ctor, run, conv)

----------------------------------------------------------------------------
(* create_criteria *)

\* the raw request dict: with a valid data entry, with a data entry the
\* schema rejects, without a data entry
CriteriaRequests ==
    {[data |-> [name |-> PyStr("crit"), evaluator_family |-> PyStr("Judge"),
                config |-> PyDict({"pass_criteria"})]],
     [data |-> [name |-> PyStr("crit")]],
     [other |-> None]}

ClientMissing == Exc("Exception", "Patronus client must be provided")

\* create_criteria without `if not patronus_client: raise ValueError(...)`
create_criteriaUnchecked(req, client, create, dump) ==
    /\ tool = "idle"
    /\ UNCHANGED <<app, suspended>>
    /\ UNCHANGED <<evaluators, eval_kwargs, results, results_dict, ctx>>
    /\ patronus_client' = client
    /\ IF "data" \notin DOMAIN req
       THEN Finish("create_criteria", req, <<>>, Raise(Exc("Exception", "'data'")))
       ELSE IF DOMAIN req.data # {"name", "evaluator_family", "config"}
       THEN Finish("create_criteria", req, <<>>,
                   Raise(Exc("Exception", "validation error")))
       ELSE Finish("create_criteria", req,
                   <<[op |-> "create_criteria_sync", request |-> req.data]>>,
                   IF create.raised THEN Raise(create.exc)
                   ELSE IF dump.raised THEN Raise(dump.exc)
                   ELSE Ret([status |-> "success",
                                  result |-> [type |-> "dict", of |-> req.data.name]]))

\* create: the outcome of patronus_client.create_criteria_sync(request_obj);
\* dump: the outcome of response.evaluator_criteria.model_dump()
create_criteria(req, client, create, dump) ==
    /\ tool = "idle"
    /\ UNCHANGED <<app, suspended>>
    /\ UNCHANGED <<evaluators, eval_kwargs, results, results_dict, ctx>>
    /\ patronus_client' = client
    /\ IF client = None
       THEN Finish("create_criteria", req, <<>>, Raise(ClientMissing))
       ELSE IF "data" \notin DOMAIN req
       THEN Finish("create_criteria", req, <<>>, Raise(Exc("Exception", "'data'")))
       ELSE IF DOMAIN req.data # {"name", "evaluator_family", "config"}
       THEN Finish("create_criteria", req, <<>>,
                   Raise(Exc("Exception", "validation error")))
       ELSE Finish("create_criteria", req,
                   <<[op |-> "create_criteria_sync", request |-> req.data]>>,
                   IF create.raised THEN Raise(create.exc)
                   ELSE IF dump.raised THEN Raise(dump.exc)
                   ELSE Ret([status |-> "success",
                                  result |-> [type |-> "dict", of |-> req.data.name]]))

CreateCriteriaTool ==
    /\ tool = "idle"
    /\ \E req \in CriteriaRequests, client \in {None, Client},
           create \in {Ret(None)} \cup Raises("create_criteria_sync failed"),
           dump \in {Ret(None)} \cup Raises("model_dump failed") :
            create_criteria(req, client, create, dump)

----------------------------------------------------------------------------
(* list_evaluator_info *)

\* the dumped evaluator records the API lists: one with and one without a
\* revision entry, of either family or of none
EvaluatorRecords ==
    {[evaluator_family |-> fam, name |-> PyStr("e1"), id |-> PyStr("id1"),
      revision |-> PyStr("1")] : fam \in {PyStr("judge"), PyStr("lynx"), None}}
    \cup
    {[evaluator_family |-> fam, name |-> PyStr("e2"), id |-> PyStr("id2")] :
        fam \in {PyStr("judge"), PyStr("lynx"), None}}

\* the dumped criteria the API lists, one family having no evaluator
CriterionRecords ==
    [evaluator_family : {PyStr("judge"), PyStr("lynx"), PyStr("glider")},
     name : {PyStr("c1"), PyStr("c2")}, revision : {PyStr("1")},
     config : {PyDict({})}]

\* d.get(key)
Get(d, key) == IF key \in DOMAIN d THEN d[key] ELSE None

\* {k: v for k, v in d.items() if k not in keys}
Without(d, keys) == [k \in DOMAIN d \ keys |-> d[k]]

Put(d, key, value) ==
    [k \in DOMAIN d \cup {key} |-> IF k = key THEN value ELSE d[k]]

EmptyDict == [k \in {} |-> None]

\* for evaluator in evaluators: ... (lines 291-300)
RECURSIVE OrganizeEvaluators(_, _)
OrganizeEvaluators(evs, result) ==
    IF evs = <<>> THEN result
    ELSE LET evaluator == Head(evs)
             family == Get(evaluator, "evaluator_family")
         IN  OrganizeEvaluators(
                 Tail(evs),
                 IF family \in DOMAIN result THEN result
                 ELSE Put(result, family,
                          [evaluator |-> Without(evaluator, {"evaluator_family", "name"}),
                           criteria |-> <<>>]))

\* for criterion in criteria: ... (lines 303-309)
RECURSIVE AddCriteria(_, _)
AddCriteria(crits, result) ==
    IF crits = <<>> THEN result
    ELSE LET criterion == Head(crits)
             family == Get(criterion, "evaluator_family")
         IN  AddCriteria(
                 Tail(crits),
                 IF family \in DOMAIN result
                 THEN Put(result, family,
                          [result[family] EXCEPT !.criteria =
                              Append(@, Without(criterion, {"evaluator_family", "revision"}))])
                 ELSE result)

\* result[family] = {...} assigned for every evaluator: the last one listed
\* of a family stays
EvaluatorInfoLast(evs, crits) ==
    AddCriteria(crits,
                OrganizeEvaluators([i \in 1..Len(evs) |-> evs[Len(evs) + 1 - i]],
                                   EmptyDict))

EvaluatorInfo(evs, crits) == AddCriteria(crits, OrganizeEvaluators(evs, EmptyDict))

\* a call of a listing helper as logged in calls, with what it gave
ListCall(op, outcome) == [op |-> op, outcome |-> outcome]

\* listE: the outcome of _list_evaluators (list_evaluators_sync and the
\* dumps); listC: the outcome of _list_criteria (list_criteria_sync and the dumps)
list_evaluator_info(client, listE, listC) ==
    /\ tool = "idle"
    /\ UNCHANGED <<app, suspended>>
    /\ UNCHANGED <<evaluators, eval_kwargs, results, results_dict, ctx>>
    /\ patronus_client' = client
    /\ IF client = None
       THEN Finish("list_evaluator_info", None, <<>>, Raise(ClientMissing))
       ELSE IF listE.raised
       THEN Finish("list_evaluator_info", None,
                   <<ListCall("list_evaluators_sync", listE)>>, Raise(listE.exc))
       ELSE Finish("list_evaluator_info", None,
                   <<ListCall("list_evaluators_sync", listE),
                     ListCall("list_criteria_sync", listC)>>,
                   IF listC.raised THEN Raise(listC.exc)
                   ELSE Ret([status |-> "success",
                                  result |-> EvaluatorInfo(listE.value, listC.value)]))

ListEvaluatorInfoTool ==
    /\ tool = "idle"
    /\ \E client \in {None, Client},
           listE \in {Ret(l) : l \in SeqsUpTo(EvaluatorRecords, MaxListed)}
                     \cup Raises("list_evaluators_sync failed"),
           listC \in {Ret(l) : l \in SeqsUpTo(CriterionRecords, MaxListed)}
                     \cup Raises("list_criteria_sync failed") :
            list_evaluator_info(client, listE, listC)

----------------------------------------------------------------------------
(* The transport takes the response; the server is ready for the next call *)

Reset ==
    /\ pc = "done"
    /\ UNCHANGED <<app, suspended>>
    /\ tool' = "idle"
    /\ pc' = "idle"
    /\ request' = None
    /\ evaluators' = <<>>
    /\ eval_kwargs' = NoKwargs
    /\ results' = None
    /\ results_dict' = None
    /\ pending' = NoExc
    /\ ctx' = "none"
    /\ calls' = <<>>
    /\ raised' = NoExc
    /\ response' = NoResponse
    /\ patronus_client' = Client

Next ==
    \/ EvaluateTool
    \/ BatchStartTool
    \/ BatchEnterStep
    \/ BatchEvaluatedStep
    \/ BatchExitStep
    \/ CustomEvaluateTool
    \/ RunExperimentTool
    \/ CreateCriteriaTool
    \/ ListEvaluatorInfoTool
    \/ Reset

Spec == Init /\ [][Next]_vars

----------------------------------------------------------------------------
(* The projection over every task description: evaluate and batch_evaluate *)
(* up to the evaluation call, for the fixture evaluator                    *)

EvaluateAllFields ==
    /\ tool = "idle"
    /\ \E req \in EvaluationRequests(AllTaskDescriptions, {FixtureConfig}),
           ctor \in {Ret(None)} \cup Raises("RemoteEvaluator failed"),
           run \in {Ret(r) : r \in EvaluationResults} \cup Raises("evaluate failed") :
            evaluate(req, ctor, run)

BatchStartAllFields ==
    /\ tool = "idle"
    /\ \E req \in BatchRequests(AllTaskDescriptions, {<<>>, <<FixtureConfig>>}),
           failed \in {0, 1},
           ctor \in {Exc(k, "AsyncRemoteEvaluator failed") : k \in ExcKinds},
           client \in {Ret(None)} \cup Raises("AsyncPatronus failed") :
            BatchStart(req, failed, ctor, client)

NextFields ==
    \/ EvaluateAllFields
    \/ BatchStartAllFields
    \/ BatchEnterStep
    \/ Reset

SpecFields == Init /\ [][NextFields]_vars

----------------------------------------------------------------------------
(* The resolver over every evaluator spec: evaluate (sync family) and      *)
(* batch_evaluate (async family) up to the evaluation call                 *)

EvaluateAllConfigs ==
    /\ tool = "idle"
    /\ \E req \in EvaluationRequests({NullTask}, AllEvaluatorConfigs),
           ctor \in {Ret(None)} \cup Raises("RemoteEvaluator failed"),
           run \in {Ret(r) : r \in EvaluationResults} \cup Raises("evaluate failed") :
            evaluate(req, ctor, run)

BatchStartAllConfigs ==
    /\ tool = "idle"
    /\ \E req \in BatchRequests({NullTask},
                                  {<<c>> : c \in AllEvaluatorConfigs}
                                  \cup {<<DefaultConfig, c>> : c \in AllEvaluatorConfigs}),
           failed \in {0, 1, 2},
           ctor \in {Exc(k, "AsyncRemoteEvaluator failed") : k \in ExcKinds},
           client \in {Ret(None)} \cup Raises("AsyncPatronus failed") :
            BatchStart(req, failed, ctor, client)

NextResolver ==
    \/ EvaluateAllConfigs
    \/ BatchStartAllConfigs
    \/ BatchEnterStep
    \/ Reset

SpecResolver == Init /\ [][NextResolver]_vars

----------------------------------------------------------------------------
(* The server as app_factory builds it: the registered tools are called    *)
(* through the transport, the two client tools with the handle of          *)
(* app_factory; a batch_evaluate call suspended at an await lets other     *)
(* calls run on the event loop.                                            *)

MaxSuspended == 1   \* most batch_evaluate calls suspended at one time

\* the names a batch_evaluate call binds (request, evaluators, eval_kwargs,
\* client, results, results_dict): locals of its frame
LocalsSharedKwargs ==
    {"request", "evaluators", "results", "results_dict", "ctx"}

Locals ==
    {"request", "evaluators", "eval_kwargs", "results", "results_dict", "ctx"}

\* the values of the names when nothing is bound
Unbound ==
    [request |-> None, evaluators |-> <<>>, eval_kwargs |-> NoKwargs,
     results |-> None, results_dict |-> None, ctx |-> "none"]

Bound ==
    [request |-> request, evaluators |-> evaluators, eval_kwargs |-> eval_kwargs,
     results |-> results, results_dict |-> results_dict, ctx |-> ctx]

\* the frame of the coroutine in flight: its position, the exception in
\* flight, its locals (and what it has called so far)
Frame ==
    [tool |-> tool, pc |-> pc, pending |-> pending, calls |-> calls,
     raised |-> raised, response |-> response,
     locals |-> [v \in Locals |-> Bound[v]]]

\* the names after the event loop left the coroutine in flight
Left(v) == IF v \in Locals THEN Unbound[v] ELSE Bound[v]

\* the names after the event loop went back to the coroutine of frame
Restored(frame, v) == IF v \in DOMAIN frame.locals THEN frame.locals[v] ELSE Bound[v]

AwaitPoints == {"aenter", "evaluate", "aexit"}

\* the coroutine awaits and the event loop takes another task
Suspend ==
    /\ tool = "batch_evaluate"
    /\ pc \in AwaitPoints
    /\ Len(suspended) < MaxSuspended
    /\ suspended' = Append(suspended, Frame)
    /\ tool' = "idle"
    /\ pc' = "idle"
    /\ pending' = NoExc
    /\ calls' = <<>>
    /\ raised' = NoExc
    /\ response' = NoResponse
    /\ request' = Left("request")
    /\ evaluators' = Left("evaluators")
    /\ eval_kwargs' = Left("eval_kwargs")
    /\ results' = Left("results")
    /\ results_dict' = Left("results_dict")
    /\ ctx' = Left("ctx")
    /\ UNCHANGED <<patronus_client, app>>

Continue(frame) ==
    /\ tool' = frame.tool
    /\ pc' = frame.pc
    /\ pending' = frame.pending
    /\ calls' = frame.calls
    /\ raised' = frame.raised
    /\ response' = frame.response
    /\ request' = Restored(frame, "request")
    /\ evaluators' = Restored(frame, "evaluators")
    /\ eval_kwargs' = Restored(frame, "eval_kwargs")
    /\ results' = Restored(frame, "results")
    /\ results_dict' = Restored(frame, "results_dict")
    /\ ctx' = Restored(frame, "ctx")

\* the event loop, with no call in flight, goes back to a suspended coroutine
Resume ==
    /\ tool = "idle"
    /\ \E i \in 1..Len(suspended) :
          /\ Continue(suspended[i])
          /\ suspended' = SubSeq(suspended, 1, i - 1)
                            \o SubSeq(suspended, i + 1, Len(suspended))
    /\ UNCHANGED <<patronus_client, app>>

\* the coroutine awaits and the event loop goes back to a suspended one
Switch ==
    /\ tool = "batch_evaluate"
    /\ pc \in AwaitPoints
    /\ \E i \in 1..Len(suspended) :
          /\ Continue(suspended[i])
          /\ suspended' = [suspended EXCEPT ![i] = Frame]
    /\ UNCHANGED <<patronus_client, app>>

ServerTasks == {NullTask, [NullTask EXCEPT !.task_input = PyStr("text")]}

ServerLists == {<<>>, <<FixtureConfig>>, <<DefaultConfig, FixtureConfig>>}

ServerContainers ==
    {c \in EvaluationContainers :
        /\ Len(c.failed_evaluations) + Len(c.succeeded_evaluations) = 1
        /\ \A i \in 1..Len(c.failed_evaluations) : c.failed_evaluations[i].id = 1
        /\ \A i \in 1..Len(c.succeeded_evaluations) : c.succeeded_evaluations[i].id = 2}

Failure(msg) == Raise(Exc("Exception", msg))

ServeEvaluate ==
    /\ "evaluate" \in app.tools
    /\ tool = "idle"
    /\ \E req \in EvaluationRequests(ServerTasks, {FixtureConfig}),
           ctor \in {Ret(None), Failure("RemoteEvaluator failed")},
           run \in {Ret(r) : r \in EvaluationResults} \cup {Failure("evaluate failed")} :
            evaluate(req, ctor, run)

ServeRunExperiment ==
    /\ "run_experiment" \in app.tools
    /\ tool = "idle"
    /\ \E req \in {e \in ExperimentRequests :
                        e.evaluators = <<FixtureConfig>> /\ e.tags = None},
           run \in {Ret(r) : r \in ExperimentResults} \cup {Failure("run_experiment failed")} :
            run_experiment(req, 0, Exc("Exception", "RemoteEvaluator failed"), run,
                           Ret(None))

ServeBatchStart ==
    /\ "batch_evaluate" \in app.tools
    /\ tool = "idle"
    /\ \E req \in BatchRequests(ServerTasks, ServerLists),
           failed \in 0..1,
           client \in {Ret(None), Failure("AsyncPatronus failed")} :
            BatchStart(req, failed, Exc("Exception", "AsyncRemoteEvaluator failed"), client)

ServeBatchEvaluated ==
    /\ pc = "evaluate"
    /\ \E run \in {Ret(c) : c \in ServerContainers} \cup {Failure("evaluate failed")},
           read \in {"none", "all_succeeded"} :
            BatchEvaluated(run, read, Exc("Exception", "reading results failed"))

\* mcp.tool(name="list_evaluator_info")(lambda: list_evaluator_info(
\*     patronus_client=patronus_client))
ServeListEvaluatorInfo ==
    /\ "list_evaluator_info" \in app.tools
    /\ tool = "idle"
    /\ \E listE \in {Ret(l) : l \in SeqsUpTo(EvaluatorRecords, 1)}
                     \cup {Failure("list_evaluators_sync failed")},
           listC \in {Ret(l) : l \in SeqsUpTo(CriterionRecords, 1)}
                     \cup {Failure("list_criteria_sync failed")} :
            list_evaluator_info(app.patronus_client, listE, listC)

\* mcp.tool(name="create_criteria")(lambda request: create_criteria(
\*     request, patronus_client=patronus_client))
ServeCreateCriteria ==
    /\ "create_criteria" \in app.tools
    /\ tool = "idle"
    /\ \E req \in CriteriaRequests,
           create \in {Ret(None), Failure("create_criteria_sync failed")} :
            create_criteria(req, app.patronus_client, create, Ret(None))

ServeCustomEvaluate ==
    /\ "custom_evaluate" \in app.tools
    /\ tool = "idle"
    /\ \E data \in {d \in CustomRequests : DOMAIN d = {"evaluator_function", "args"}},
           called \in {Ret(PyBool(TRUE)), Ret(PyFloat(7)),
                        Failure("evaluator function failed")} :
            custom_evaluate(data, called)

NextServer ==
    \/ ServeEvaluate
    \/ ServeRunExperiment
    \/ ServeBatchStart
    \/ BatchEnterStep
    \/ ServeBatchEvaluated
    \/ BatchExitStep
    \/ ServeListEvaluatorInfo
    \/ ServeCreateCriteria
    \/ ServeCustomEvaluate
    \/ Suspend
    \/ Resume
    \/ Switch
    \/ Reset

SpecServer == Init /\ [][NextServer]_vars

----------------------------------------------------------------------------
(* Properties *)

Done(t) == tool = t /\ pc = "done"

\* C3: batch_evaluate called with an empty evaluators list returns, whatever
\* the seven task-description fields hold, the error envelope with the
\* message "No evaluators provided", and calls nothing.
C3_EmptyBatchRejected ==
    (tool = "batch_evaluate" /\ request.evaluators = <<>>) =>
        /\ pc = "done"
        /\ response.returned
        /\ response.envelope = [status |-> "error", message |-> "No evaluators provided"]
        /\ response.envelope.message # ""
        /\ calls = <<>>

C3_Witness ==
    /\ Done("batch_evaluate")
    /\ request.evaluators = <<>>
    /\ request.task_input = PyStr("text")
    /\ request.task_metadata = PyDict({"k"})
    /\ response.returned

\* C6: the keyword arguments of every evaluation call issued by evaluate or
\* batch_evaluate have as keys exactly the allow-listed fields whose request
\* value is not null, each mapped to its request value; empty values are
\* forwarded.
C6_ProjectionExact ==
    \A i \in 1..Len(calls) :
        calls[i].op = "evaluate" =>
            LET kw == calls[i].kwargs
                allow == {"task_input", "task_output", "system_prompt", "task_context",
                          "task_attachments", "gold_answer", "task_metadata"}
            IN  /\ DOMAIN kw = {f \in allow : request[f] # None}
                /\ \A f \in DOMAIN kw : kw[f] = request[f] /\ kw[f] # None

C6_Witness ==
    /\ tool = "batch_evaluate"
    /\ pc = "evaluate"
    /\ request.task_input = PyStr("")
    /\ request.task_context = PyList(<<>>)
    /\ request.task_metadata = PyDict({})
    /\ request.task_output = None
    /\ calls[Len(calls)].op = "evaluate"
    /\ DOMAIN calls[Len(calls)].kwargs = {"task_input", "task_context", "task_metadata"}

\* the user function of custom_evaluate was called and returned
FunctionReturned ==
    /\ Done("custom_evaluate")
    /\ calls # <<>>
    /\ ~calls[1].outcome.raised

FunctionRaised ==
    /\ Done("custom_evaluate")
    /\ calls # <<>>
    /\ calls[1].outcome.raised

Success(score, pass_, text_output, explanation, metadata, tags) ==
    Returned([status |-> "success",
              result |-> [score |-> score, pass_ |-> pass_, text_output |-> text_output,
                          explanation |-> explanation, metadata |-> metadata,
                          tags |-> tags]])

\* C7: custom_evaluate classifies the returned value in the precedence
\* structured result, boolean, numeric, string, other: a structured result is
\* passed through verbatim, a boolean is never scored as a number, a string
\* scores 1.0 and passes with itself as text, any other type is an error
\* "Unsupported result type".
C7_Classification ==
    FunctionReturned =>
        LET v == calls[1].outcome.value
        IN  /\ v.type = "EvaluationResult" =>
                  response = Success(v.score, v.pass_, v.text_output, v.explanation,
                                     v.metadata, v.tags)
            /\ v.type = "bool" =>
                  response = Success(IF v.b THEN PyFloat(10) ELSE PyFloat(0), PyBool(v.b),
                                     IF v.b THEN PyStr("Pass") ELSE PyStr("Fail"),
                                     PyStr("Boolean evaluation result"),
                                     PyDict({}), PyDict({}))
            /\ v.type \in {"int", "float"} =>
                  \/ ~response.returned
                  \/ response.envelope.status = "error"
                  \/ response.envelope.result.explanation = PyStr("Numeric evaluation result")
            /\ v.type = "str" =>
                  response = Success(PyFloat(10), PyBool(TRUE), v,
                                     PyStr("Text evaluation result"), PyDict({}), PyDict({}))
            /\ v.type \notin {"EvaluationResult", "bool", "int", "float", "str"} =>
                  /\ response.returned
                  /\ response.envelope =
                        [status |-> "error",
                         message |-> "Unsupported result type: <class '" \o v.type \o "'>"]

C7_Witness ==
    /\ FunctionReturned
    /\ calls[1].outcome.value = PyBool(FALSE)
    /\ response.returned
    /\ response.envelope.result.text_output = PyStr("Fail")
    /\ response.envelope.result.score = PyFloat(0)

\* the value of a number that a float holds, in tenths
InTenths(v) == IF v.type = "float" THEN v.tenths ELSE v.n * 10

NumberReturned ==
    /\ FunctionReturned
    /\ calls[1].outcome.value.type \in {"int", "float"}

ScoredAgainstThreshold(v) ==
    /\ response.returned
    /\ response.envelope.status = "success"
    /\ response.envelope.result.score = PyFloat(InTenths(v))
    /\ response.envelope.result.pass_ = PyBool(InTenths(v) >= 7)

\* C8 as stated: every non-boolean number the user function returns gives
\* status success with that score and pass_ exactly when it is >= 0.7.
C8_EveryNumberScored ==
    NumberReturned => ScoredAgainstThreshold(calls[1].outcome.value)

\* C8 amended: every float, and every int that float() can convert, gives
\* status success with score float(v) and pass_ exactly when v >= 0.7,
\* whatever the request; an int beyond the range of a float gives status
\* error, because float(v) raises OverflowError.
C8_NumberScoredUnlessOverflow ==
    NumberReturned =>
        LET v == calls[1].outcome.value
        IN  IF v.type = "int" /\ v.huge
            THEN /\ response.returned
                 /\ response.envelope.status = "error"
                 /\ "result" \notin DOMAIN response.envelope
            ELSE ScoredAgainstThreshold(v)

C8_Witness ==
    /\ NumberReturned
    /\ calls[1].outcome.value = PyFloat(7)
    /\ response.returned
    /\ response.envelope.result.pass_ = PyBool(TRUE)
    /\ "args" \in DOMAIN request

FunctionUnusable ==
    /\ Done("custom_evaluate")
    /\ \/ "evaluator_function" \notin DOMAIN request
       \/ request.evaluator_function.type # "function"

IsErrorEnvelope ==
    /\ response.returned
    /\ response.envelope.status = "error"
    /\ DOMAIN response.envelope = {"status", "message"}

\* C9 as stated: custom_evaluate returns an error envelope when the function
\* entry is missing, when it is not callable, or when the function raises.
C9_ErrorEnvelopeOnAnyRaise ==
    (FunctionUnusable \/ FunctionRaised) => IsErrorEnvelope

\* C9 amended: custom_evaluate returns an error envelope, never a success
\* envelope, when the function entry is missing, when it is not callable, or
\* when the function raises an instance of Exception whose str() works; an
\* exception that is no instance of Exception, or whose str() raises, leaves
\* custom_evaluate as an exception and no envelope is returned.
C9_ErrorEnvelopeOnException ==
    /\ FunctionUnusable => IsErrorEnvelope
    /\ FunctionRaised =>
          IF calls[1].outcome.exc.kind = "Exception"
          THEN /\ IsErrorEnvelope
               /\ response.envelope.message = calls[1].outcome.exc.msg
          ELSE ~response.returned /\ response.escaped # "none"

C9_Witness ==
    /\ Done("custom_evaluate")
    /\ "evaluator_function" \in DOMAIN request
    /\ request.evaluator_function = PyStr("invalid_function")
    /\ "args" \in DOMAIN request
    /\ request.args = PyList(<<"text">>)
    /\ IsErrorEnvelope

Tools ==
    {"evaluate", "batch_evaluate", "run_experiment", "custom_evaluate",
     "create_criteria", "list_evaluator_info"}

\* C4 as stated: whatever the SDK or the user function does, a tool call ends
\* by returning an envelope.
C4_AlwaysEnvelope ==
    pc = "done" => response.returned

\* C4 amended: a tool call ends by returning an envelope with status success
\* or error on every path on which nothing is raised or the exception that
\* leaves the try block is an instance of Exception whose str() works; an
\* exception that is no instance of Exception (SystemExit, KeyboardInterrupt,
\* asyncio.CancelledError), or whose str() raises in the handler, escapes to
\* the transport.  (The client context is taken not to swallow exceptions.)
C4_EnvelopeUnlessUncatchable ==
    pc = "done" =>
        /\ tool \in Tools
        /\ IF raised.kind \in {"none", "Exception"}
           THEN /\ response.returned
                /\ response.envelope.status \in {"success", "error"}
                /\ raised.kind = "Exception" =>
                      response.envelope = [status |-> "error", message |-> raised.msg]
           ELSE /\ ~response.returned
                /\ response.escaped # "none"

C4_Witness ==
    /\ Done("run_experiment")
    /\ raised = Exc("Exception", "run_experiment failed")
    /\ response.returned
    /\ response.envelope.status = "error"

\* client.evaluate was awaited and raised: the block was entered and left
\* with results unbound
EvaluateRaised ==
    /\ Done("batch_evaluate")
    /\ ctx \in {"exited", "exit_raised"}
    /\ results = None

BatchSucceeded ==
    /\ Done("batch_evaluate")
    /\ response.returned
    /\ response.envelope.status = "success"

FailedForwarded ==
    /\ results # None
    /\ Len(response.envelope.results.failed_evaluations)
         = Len(results.failed_evaluations)
    /\ \A i \in 1..Len(results.failed_evaluations) :
          response.envelope.results.failed_evaluations[i]
            = [type |-> "dict", dumped |-> results.failed_evaluations[i].id]

\* C5 as stated: an evaluator raising during execution makes the whole call
\* return one error envelope without results, and an outcome the SDK reports
\* as failed is returned in failed_evaluations under status success.
C5_RaiseGivesErrorEnvelope ==
    /\ EvaluateRaised => IsErrorEnvelope
    /\ BatchSucceeded => FailedForwarded

\* C5 amended: when an evaluator raises during execution the call never
\* returns success nor partial results: it returns one error envelope if
\* the exception that leaves the try block (the evaluator's, or the one
\* raised on leaving the client context) is an instance of Exception whose
\* str() works, and otherwise that exception escapes; the exception is never
\* turned into an entry of failed_evaluations.  Every success envelope
\* carries in failed_evaluations the outcomes the SDK reported as failed.
C5_RaiseNeverPartial ==
    /\ EvaluateRaised =>
          /\ raised # NoExc
          /\ IF raised.kind = "Exception"
             THEN IsErrorEnvelope /\ response.envelope.message = raised.msg
             ELSE ~response.returned
    /\ BatchSucceeded => FailedForwarded

C5_Witness ==
    /\ EvaluateRaised
    /\ raised = Exc("Exception", "evaluate failed")
    /\ IsErrorEnvelope
    /\ Len(request.evaluators) = 2

C14_NoClientNoCall ==
    (pc = "done" /\ tool \in {"list_evaluator_info", "create_criteria"}
                /\ patronus_client = None) =>
        /\ response.returned
        /\ response.envelope =
              [status |-> "error", message |-> "Patronus client must be provided"]
        /\ calls = <<>>

C14_Witness ==
    /\ Done("create_criteria")
    /\ patronus_client = None
    /\ "data" \in DOMAIN request
    /\ DOMAIN request.data = {"name", "evaluator_family", "config"}
    /\ response.returned
    /\ calls = <<>>

\* the evaluator spec the i-th call of the log resolves
ConfigOf(i) ==
    IF tool = "evaluate" THEN request.evaluator ELSE request.evaluators[i]

IsCtorCall(i) == calls[i].op \in {"RemoteEvaluator", "AsyncRemoteEvaluator"}

\* C16: resolving an evaluator spec constructs one evaluator of the tool's
\* family (sync for evaluate and run_experiment, async for batch_evaluate)
\* bound to the spec's name, with exactly the optional fields whose value is
\* not null as keyword arguments, values unchanged; the spec with every
\* optional field left at its default forwards explain_strategy="always",
\* allow_update=false and max_attempts=3.
C16_ResolverForwardsNonNull ==
    /\ \A i \in 1..Len(calls) :
          IsCtorCall(i) =>
              LET config == ConfigOf(i)
                  kw == calls[i].kwargs
              IN  /\ i <= (IF tool = "evaluate" THEN 1 ELSE Len(request.evaluators))
                  /\ calls[i].op = (IF tool = "batch_evaluate"
                                    THEN "AsyncRemoteEvaluator" ELSE "RemoteEvaluator")
                  /\ calls[i].name = config.name
                  /\ DOMAIN kw = {f \in {"criteria", "explain_strategy", "criteria_config",
                                         "allow_update", "max_attempts"} : config[f] # None}
                  /\ \A f \in DOMAIN kw : kw[f] = config[f]
                  /\ config.name = "defaults" =>
                        kw = [explain_strategy |-> PyStr("always"),
                              allow_update |-> PyBool(FALSE),
                              max_attempts |-> PyInt(3)]
    /\ Done("evaluate") => IsCtorCall(1)

C16_Witness ==
    /\ tool = "batch_evaluate"
    /\ pc = "aenter"
    /\ Len(request.evaluators) = 2
    /\ request.evaluators[1].name = "defaults"
    /\ request.evaluators[2].max_attempts = PyInt(0)
    /\ request.evaluators[2].criteria_config = PyDict({})
    /\ calls[1].op = "AsyncRemoteEvaluator"
    /\ DOMAIN calls[1].kwargs = {"explain_strategy", "allow_update", "max_attempts"}
    /\ calls[2].kwargs.max_attempts = PyInt(0)

\* C17 as stated: every evaluator constructor call carries all five optional
\* fields.
C17_AllFiveForwarded ==
    \A i \in 1..Len(calls) :
        IsCtorCall(i) =>
            DOMAIN calls[i].kwargs = {"criteria", "explain_strategy", "criteria_config",
                                      "allow_update", "max_attempts"}

\* C17 amended: an optional field is forwarded to the constructor exactly
\* when its value after the schema's defaulting is not null.  A spec that
\* leaves every optional field out forwards explain_strategy, allow_update
\* and max_attempts (their declared defaults) and omits criteria and
\* criteria_config, whose declared default is null; a field the caller sets
\* to null explicitly is omitted as well.
C17_ForwardedIffNonNull ==
    \A i \in 1..Len(calls) :
        IsCtorCall(i) =>
            LET config == ConfigOf(i)
                kw == calls[i].kwargs
            IN  /\ \A f \in {"criteria", "explain_strategy", "criteria_config",
                              "allow_update", "max_attempts"} :
                      (f \in DOMAIN kw) <=> (config[f] # None)
                /\ config.name = "defaults" =>
                      /\ {"explain_strategy", "allow_update", "max_attempts"}
                            \subseteq DOMAIN kw
                      /\ "criteria" \notin DOMAIN kw
                      /\ "criteria_config" \notin DOMAIN kw

C17_Witness ==
    /\ Done("evaluate")
    /\ request.evaluator.explain_strategy = None
    /\ request.evaluator.criteria = PyStr("patronus:hallucination")
    /\ request.evaluator.allow_update = PyBool(FALSE)
    /\ IsCtorCall(1)
    /\ DOMAIN calls[1].kwargs = {"criteria", "allow_update", "max_attempts"}

OpsLogged == {calls[i].op : i \in 1..Len(calls)}

\* C18: in batch_evaluate a client context that was entered has been exited
\* (__aexit__ awaited, once, as the last call) when the call ends, whether
\* the block was left by the return, by an exception of client.evaluate or
\* by an exception while reading or serialising the outcomes; as long as the
\* context is open the call has not ended.
C18_ContextExited ==
    tool = "batch_evaluate" =>
        /\ ctx = "entered" => pc \in {"evaluate", "aexit"} /\ response = NoResponse
        /\ (pc = "done" /\ ctx # "none") =>
              /\ ctx \in {"exited", "exit_raised"}
              /\ calls[Len(calls)].op = "__aexit__"
              /\ Cardinality({i \in 1..Len(calls) : calls[i].op = "__aexit__"}) = 1
              /\ \E i \in 1..Len(calls) : calls[i].op = "__aenter__"
        /\ (pc = "done" /\ "evaluate" \in OpsLogged) => "__aexit__" \in OpsLogged
        /\ ctx = "none" => "__aexit__" \notin OpsLogged

C18_Witness ==
    /\ Done("batch_evaluate")
    /\ ctx = "exited"
    /\ results # None
    /\ results_dict = None
    /\ raised.kind = "BaseException"
    /\ calls[Len(calls)].op = "__aexit__"
    /\ ~response.returned

\* the calls of batch_evaluate that come after resolution
AfterResolution == {"AsyncPatronus", "__aenter__", "evaluate", "__aexit__"}

\* every spec of the request was resolved, in input order, by the first calls
ResolvedInOrder ==
    /\ request.evaluators # <<>>
    /\ Len(calls) >= Len(request.evaluators)
    /\ \A j \in 1..Len(request.evaluators) :
          /\ calls[j].op = "AsyncRemoteEvaluator"
          /\ calls[j].name = request.evaluators[j].name

\* resolving a spec raised: the constructor call is the last call made
ResolvingRaised ==
    /\ Done("batch_evaluate")
    /\ calls # <<>>
    /\ calls[Len(calls)].op = "AsyncRemoteEvaluator"

NothingEntered ==
    /\ ctx = "none"
    /\ OpsLogged \cap AfterResolution = {}

\* C19 as stated: with an empty list, or when resolving a spec raises, the
\* call returns an error envelope, no context entered, no evaluation issued.
C19_ErrorEnvelopeBeforeEnter ==
    (tool = "batch_evaluate"
        /\ ((pc = "done" /\ request.evaluators = <<>>) \/ ResolvingRaised)) =>
            IsErrorEnvelope /\ NothingEntered

\* C19 amended: the client context is created and entered and the
\* evaluation issued only after the empty-list check has passed and every
\* spec has been resolved, one evaluator per spec in input order; if the
\* list is empty, or resolving a spec raises, the call ends with no context
\* entered and no evaluation issued: with an error envelope when the list is
\* empty or the exception is an instance of Exception whose str() works,
\* and otherwise with that exception escaping.
C19_ResolveBeforeEnter ==
    tool = "batch_evaluate" =>
        /\ OpsLogged \cap AfterResolution # {} =>
              /\ ResolvedInOrder
              /\ calls[Len(request.evaluators) + 1].op = "AsyncPatronus"
        /\ \A i \in 1..Len(calls) :
              /\ calls[i].op = "AsyncRemoteEvaluator" => i <= Len(request.evaluators)
              /\ calls[i].op = "evaluate" =>
                    /\ Len(calls[i].evaluators) = Len(request.evaluators)
                    /\ \A j \in 1..Len(request.evaluators) :
                          /\ calls[i].evaluators[j].cls = "AsyncRemoteEvaluator"
                          /\ calls[i].evaluators[j].name = request.evaluators[j].name
        /\ (pc = "done" /\ request.evaluators = <<>>) =>
              IsErrorEnvelope /\ NothingEntered /\ calls = <<>>
        /\ ResolvingRaised =>
              /\ NothingEntered
              /\ raised # NoExc
              /\ IF raised.kind = "Exception"
                 THEN IsErrorEnvelope /\ response.envelope.message = raised.msg
                 ELSE ~response.returned /\ response.escaped # "none"

C19_Witness ==
    /\ ResolvingRaised
    /\ Len(request.evaluators) = 2
    /\ Len(calls) = 2
    /\ calls[1].name = "judge"
    /\ calls[2].name = "lynx"
    /\ raised = Exc("Exception", "AsyncRemoteEvaluator failed")
    /\ IsErrorEnvelope
    /\ NothingEntered

ListedInfo ==
    /\ Done("list_evaluator_info")
    /\ response.returned
    /\ response.envelope.status = "success"

\* record.get('evaluator_family')
FamilyOf(record) ==
    IF "evaluator_family" \in DOMAIN record THEN record.evaluator_family ELSE None

\* C20: the keys of the result of list_evaluator_info are exactly the
\* evaluator_family values of the listed evaluators; each family's evaluator
\* entry comes from the first listed evaluator of the family; each family's
\* criteria list is, in order, the listed criteria of that family, so that a
\* criterion of a family without listed evaluator appears nowhere.
C20_GroupedByFamily ==
    ListedInfo =>
        LET evs == calls[1].outcome.value
            crits == calls[2].outcome.value
            result == response.envelope.result
            First(f) == CHOOSE i \in 1..Len(evs) :
                            /\ FamilyOf(evs[i]) = f
                            /\ \A j \in 1..(i - 1) : FamilyOf(evs[j]) # f
            Of(f) == SelectSeq(crits, LAMBDA c : FamilyOf(c) = f)
        IN  /\ DOMAIN result = {FamilyOf(evs[i]) : i \in 1..Len(evs)}
            /\ \A f \in DOMAIN result :
                  /\ DOMAIN result[f] = {"evaluator", "criteria"}
                  /\ result[f].evaluator =
                        [k \in DOMAIN evs[First(f)] \ {"evaluator_family", "name"}
                           |-> evs[First(f)][k]]
                  /\ Len(result[f].criteria) = Len(Of(f))
                  /\ \A i \in 1..Len(Of(f)) :
                        result[f].criteria[i] =
                            [k \in DOMAIN Of(f)[i] \ {"evaluator_family", "revision"}
                               |-> Of(f)[i][k]]

C20_Witness ==
    /\ ListedInfo
    /\ Len(calls[1].outcome.value) = 2
    /\ calls[1].outcome.value[1].evaluator_family = PyStr("judge")
    /\ calls[1].outcome.value[2].evaluator_family = PyStr("judge")
    /\ calls[1].outcome.value[1].id = PyStr("id2")
    /\ calls[1].outcome.value[2].id = PyStr("id1")
    /\ Len(calls[2].outcome.value) = 2
    /\ calls[2].outcome.value[1].evaluator_family = PyStr("glider")
    /\ calls[2].outcome.value[2].evaluator_family = PyStr("judge")
    /\ DOMAIN response.envelope.result = {PyStr("judge")}
    /\ response.envelope.result[PyStr("judge")].evaluator.id = PyStr("id2")
    /\ Len(response.envelope.result[PyStr("judge")].criteria) = 1

\* what a call of batch_evaluate holds follows from its own request
OwnRequest ==
    /\ Len(evaluators) = Len(request.evaluators)
    /\ \A j \in 1..Len(evaluators) :
          /\ evaluators[j].cls = "AsyncRemoteEvaluator"
          /\ evaluators[j].name = request.evaluators[j].name
    /\ eval_kwargs =
          [f \in {g \in {"task_input", "task_output", "system_prompt", "task_context",
                         "task_attachments", "gold_answer", "task_metadata"} :
                     request[g] # None} |-> request[f]]

\* the outcomes as serialised from the container this call was given
OwnResults ==
    /\ results # None
    /\ results_dict =
          [all_succeeded |-> results.all_succeeded,
           failed_evaluations |->
               [i \in 1..Len(results.failed_evaluations) |->
                   [type |-> "dict", dumped |-> results.failed_evaluations[i].id]],
           succeeded_evaluations |->
               [i \in 1..Len(results.succeeded_evaluations) |->
                   [type |-> "dict", dumped |-> results.succeeded_evaluations[i].id]]]

\* C12: whatever calls run while a batch_evaluate call is suspended at an
\* await, the call in flight holds what follows from its own request and
\* the SDK's answers to it: the evaluators and keyword arguments it issues
\* and logs are those of its request, the results it returns are the
\* serialisation of the container it was given, its context is open exactly
\* between __aenter__ and __aexit__; and the application built at startup
\* (the client handle, the registered tools) is never changed.
C12_Isolated ==
    /\ app = app_factory
    /\ app.patronus_client = [type |-> "PatronusAPIClient"]
    /\ \A i \in 1..Len(suspended) :
          suspended[i].tool = "batch_evaluate" /\ suspended[i].pc \in AwaitPoints
    /\ tool = "batch_evaluate" =>
          /\ pc \in AwaitPoints => OwnRequest /\ response = NoResponse
          /\ (ctx = "entered") <=> (pc \in {"evaluate", "aexit"})
          /\ \A i \in 1..Len(calls) :
                calls[i].op = "evaluate" =>
                    /\ OwnRequest
                    /\ calls[i].evaluators = evaluators
                    /\ calls[i].kwargs = eval_kwargs
          /\ (pc = "aexit" /\ pending = NoExc) => OwnResults
          /\ BatchSucceeded => OwnResults /\ response.envelope.results = results_dict
    /\ tool \in {"list_evaluator_info", "create_criteria"} =>
          patronus_client = app.patronus_client

\* a call ends with success while another call, of another request, is
\* suspended after it issued its evaluation
C12_Witness ==
    /\ BatchSucceeded
    /\ Len(request.evaluators) = 2
    /\ suspended # <<>>
    /\ suspended[1].pc = "evaluate"
    /\ suspended[1].locals.request # request
    /\ suspended[1].locals.eval_kwargs # eval_kwargs

SixTools ==
    {"evaluate", "batch_evaluate", "run_experiment", "custom_evaluate",
     "list_evaluator_info", "create_criteria"}

\* C15 as stated: the registered tools include initialize and
\* async_batch_evaluate besides the six tool functions.
C15_InitializeRegistered ==
    SixTools \cup {"initialize", "async_batch_evaluate"} \subseteq app.tools

\* C15 amended: the tools registered at startup are exactly evaluate,
\* batch_evaluate, run_experiment, custom_evaluate, list_evaluator_info and
\* create_criteria, and only these are ever dispatched; no initialize and no
\* async_batch_evaluate tool is registered: the SDK is configured once, by
\* app_factory at startup, before the client handle is built.
C15_SixToolsRegistered ==
    /\ app.tools = SixTools
    /\ "initialize" \notin app.tools
    /\ "async_batch_evaluate" \notin app.tools
    /\ tool # "idle" => tool \in app.tools
    /\ app.startup[1].op = "patronus.init"
    /\ app.startup[2].op = "PatronusAPIClient"

C15_Witness ==
    /\ Done("list_evaluator_info")
    /\ patronus_client = app.patronus_client
    /\ response.returned
    /\ response.envelope.status = "success"
    /\ app.tools = SixTools

====
